---- MODULE Spec2Model ----
(***************************************************************************)
(* jsspacynlp client: the request/retry state machine of SpacyNLP.request, *)
(* SpacyNLP.lemmatize, and the batch orchestrator BatchProcessor.process / *)
(* BatchProcessor.processStream, with the columnar decode parseResponse.   *)
(***************************************************************************)
EXTENDS Integers, Sequences, FiniteSets, TLC

\* ------------------------------------------------------------ bounds
MaxTexts == 3
MaxBatchSize == 2
MaxRetries == 3
MaxLatePulls == 1
MaxDocs == 2
MaxDocTokens == 2

\* ------------------------------------------------- program constants
DEFAULT_BATCH_SIZE == 1000
DefaultRetryDelay == 1000

\* ------------------------------------------------------ input domains
AllTexts == <<"t1", "t2", "t3", "t4", "t5">>
TextInputs == {SubSeq(AllTexts, 1, n) : n \in 0..MaxTexts}
BatchSizeInputs == (-1)..MaxBatchSize
RetriesInputs == 0..MaxRetries
RetryDelayInputs == {1, DefaultRetryDelay}
BatchIds == 0..(MaxTexts - 1)

Min(a, b) == IF a < b THEN a ELSE b
Max(a, b) == IF a > b THEN a ELSE b

RECURSIVE Pow2(_)
Pow2(n) == IF n <= 0 THEN 1 ELSE 2 * Pow2(n - 1)

\* ------------------------------------------------------------ errors
\* An Error object: name, message (a tuple of message pieces), and the two
\* optional SpacyNLPError members (<<>> is undefined).
MkError(name, message) ==
    [name |-> name, message |-> message, statusCode |-> <<>>, details |-> <<>>]

SpacyNLPError(message, statusCode, details) ==
    [name |-> "SpacyNLPError", message |-> message,
     statusCode |-> statusCode, details |-> details]

EmptyInputError == MkError("Error", <<"Cannot process empty text array">>)
NetworkError == MkError("FetchError", <<"Network error">>)
AbortError == MkError("AbortError", <<"The user aborted a request.">>)
InvalidJsonError == MkError("FetchError", <<"invalid json response body">>)

IsSpacyNLPError(e) == e.name = "SpacyNLPError"

\* ---------------------------------------------------- server responses
\* The two response shapes the service can answer a batch with: field list and
\* processing time. One document per text, one token per document.
ResponseVariants ==
    { << <<"text", "lemma", "pos">>, 10 >>, << <<"lemma", "text", "is_stop">>, 25 >> }

\* A string is the sequence of its pieces (words and single characters), so
\* '' is <<>>.
FieldValue(fieldName, text) ==
    CASE fieldName = "text" -> <<text>>
      [] fieldName = "lemma" -> <<"lem">>
      [] fieldName = "pos" -> <<"NOUN">>
      [] fieldName = "is_stop" -> <<"True">>
      [] OTHER -> <<"x">>

LemmatizeResponses(batch) ==
    { [annotations |-> v[1],
       tokens |-> [d \in 1..Len(batch) |->
                     << [f \in 1..Len(v[1]) |-> FieldValue(v[1][f], batch[d])] >>],
       model |-> "en_core_web_sm",
       processing_time_ms |-> v[2]] : v \in ResponseVariants }

ErrorEnvelopes == { [error |-> "Model not found"], [error |-> ""] }

JsonBody(payload) == [kind |-> "payload", payload |-> <<payload>>, envelope |-> <<>>]
EnvelopeBody(env) == [kind |-> "envelope", payload |-> <<>>, envelope |-> <<env>>]
InvalidBody == [kind |-> "invalid", payload |-> <<>>, envelope |-> <<>>]

HttpResponse(status, body) ==
    [status |-> status, ok |-> (status >= 200 /\ status < 300), body |-> body]

\* Every response the network can deliver for a request with this body.
HttpResponses(requestBody) ==
    { HttpResponse(200, JsonBody(p)) : p \in LemmatizeResponses(requestBody.texts) }
    \cup { HttpResponse(200, InvalidBody) }
    \cup { HttpResponse(s, EnvelopeBody(e)) : s \in {400, 500}, e \in ErrorEnvelopes }
    \cup { HttpResponse(s, InvalidBody) : s \in {400, 500} }

\* ------------------------------------------------------------ decode
\* A decoded value: a string, a boolean or undefined, tagged with its type.
Str(s) == <<"string", s>>
Bool(b) == <<"boolean", << IF b THEN "true" ELSE "false" >> >>
Undefined == <<"undefined", <<>> >>

\* fieldName.startsWith('is_'), over the field names of the model.
StartsWithIs(fieldName) == fieldName \in {"is_stop", "is_alpha", "is_punct"}

\* token[fieldName] = value on an object whose keys keep insertion order: a
\* token is a sequence of <<key, value>> pairs.
SetField(token, fieldName, value) ==
    IF \E j \in 1..Len(token) : token[j][1] = fieldName
    THEN [j \in 1..Len(token) |->
            IF token[j][1] = fieldName THEN <<fieldName, value>> ELSE token[j]]
    ELSE Append(token, <<fieldName, value>>)

GetField(token, fieldName) ==
    IF \E j \in 1..Len(token) : token[j][1] = fieldName
    THEN token[CHOOSE j \in 1..Len(token) : token[j][1] = fieldName][2]
    ELSE Undefined

\* Mutant: the value is read one position too far.
ValueAtNext(tokenValues, index) ==
    IF index + 1 <= Len(tokenValues) THEN Str(tokenValues[index + 1]) ELSE Undefined

\* tokenValues[index], undefined past the end of the array.
ValueAt(tokenValues, index) ==
    IF index >= 1 /\ index <= Len(tokenValues) THEN Str(tokenValues[index]) ELSE Undefined

\* Mutant: only the lowercase spelling counts as true.
CoerceFieldLowercaseOnly(fieldName, value) ==
    IF StartsWithIs(fieldName) THEN Bool(value = Str(<<"true">>)) ELSE value

CoerceField(fieldName, value) ==
    IF StartsWithIs(fieldName)
    THEN Bool(value = Str(<<"true">>) \/ value = Str(<<"True">>))
    ELSE value

RECURSIVE AssignFields(_, _, _, _)
AssignFields(token, annotations, tokenValues, index) ==
    IF index > Len(annotations) THEN token
    ELSE AssignFields(
           SetField(token, annotations[index],
                    CoerceField(annotations[index], ValueAt(tokenValues, index))),
           annotations, tokenValues, index + 1)

parseToken(annotations, tokenValues) ==
    AssignFields(<< <<"text", Str(<<>>)>>, <<"lemma", Str(<<>>)>>, <<"pos", Str(<<>>)>> >>,
                 annotations, tokenValues, 1)

\* Mutant: a separator after every element, the last one included.
RECURSIVE JoinWithTrailing(_, _)
JoinWithTrailing(values, sep) ==
    IF Len(values) = 0 THEN <<>>
    ELSE values[1][2] \o <<sep>> \o JoinWithTrailing(Tail(values), sep)

\* Array.prototype.join: the elements' strings with the separator between
\* consecutive ones, undefined rendered as the empty string.
RECURSIVE JoinWith(_, _)
JoinWith(values, sep) ==
    IF Len(values) = 0 THEN <<>>
    ELSE IF Len(values) = 1 THEN values[1][2]
    ELSE values[1][2] \o <<sep>> \o JoinWith(Tail(values), sep)

parseDocument(annotations, docTokens) ==
    LET tokens == [t \in 1..Len(docTokens) |-> parseToken(annotations, docTokens[t])]
    IN [tokens |-> tokens,
        text |-> JoinWith([t \in 1..Len(tokens) |-> GetField(tokens[t], "text")], " ")]

parseResponse(response) ==
    [d \in 1..Len(response.tokens) |->
        parseDocument(response.annotations, response.tokens[d])]

\* Mutant: the rows are consumed destructively (shift).
ResponseAfterParseDrained(response) == [response EXCEPT !.tokens = <<>>]

\* parseResponse reads response.tokens and response.annotations and writes
\* only to the tokens and documents it creates: its argument after the call.
ResponseAfterParse(response) == response

LemmatizationResultImpl(response) ==
    [raw |-> response, documents |-> parseResponse(response)]

\* ------------------------------------------------------------ export
\* value || ''
OrEmpty(value) ==
    IF value \in {Undefined, Str(<<>>), Bool(FALSE)} THEN Str(<<>>) ELSE value

VerticalLine(token) ==
    JoinWith(<< GetField(token, "text"), GetField(token, "lemma"),
                OrEmpty(GetField(token, "pos")), OrEmpty(GetField(token, "tag")) >>,
             "\t")

\* The lines array after the first n documents.
RECURSIVE VerticalLines(_, _)
VerticalLines(documents, n) ==
    IF n = 0 THEN <<>>
    ELSE VerticalLines(documents, n - 1)
         \o (IF n > 1 THEN << Str(<<>>) >> ELSE <<>>)
         \o [t \in 1..Len(documents[n].tokens) |->
                Str(VerticalLine(documents[n].tokens[t]))]

toVertical(documents) == JoinWith(VerticalLines(documents, Len(documents)), "\n")

\* A token object is known by its address <<d, t>>: token t of document d.
\* An array of tokens holds addresses, so that two arrays can hold the same
\* object.
TokenAt(documents, ref) == documents[ref[1]].tokens[ref[2]]

\* Mutant: only the first document's tokens.
AllTokensOfFirstDocument(documents, n) ==
    IF n = 0 THEN <<>>
    ELSE [t \in 1..Len(documents[1].tokens) |-> <<1, t>>]

\* this.documents.flatMap((doc) => doc.tokens), over the first n documents.
RECURSIVE AllTokensOf(_, _)
AllTokensOf(documents, n) ==
    IF n = 0 THEN <<>>
    ELSE AllTokensOf(documents, n - 1)
         \o [t \in 1..Len(documents[n].tokens) |-> <<n, t>>]

\* The predicates callers filter with: (token) => token.pos === tag.
Satisfies(posTag, token) == GetField(token, "pos") = Str(<<posTag>>)

\* Array.prototype.filter over the token addresses.
RECURSIVE FilterRefs(_, _, _)
FilterRefs(documents, refs, posTag) ==
    IF Len(refs) = 0 THEN <<>>
    ELSE (IF Satisfies(posTag, TokenAt(documents, refs[1])) THEN << refs[1] >> ELSE <<>>)
         \o FilterRefs(documents, Tail(refs), posTag)

\* Mutant: the tokens that do not satisfy the predicate.
filterTokensRejected(documents, posTag) ==
    LET refs == AllTokensOf(documents, Len(documents))
    IN SelectSeq(refs, LAMBDA r : ~Satisfies(posTag, TokenAt(documents, r)))

filterTokens(documents, posTag) ==
    FilterRefs(documents, AllTokensOf(documents, Len(documents)), posTag)

\* Object.keys(token): the keys in insertion order.
ObjectKeys(token) == [j \in 1..Len(token) |-> token[j][1]]

\* str.replace(/"/g, '""')
RECURSIVE DoubleQuotes(_)
DoubleQuotes(str) ==
    IF Len(str) = 0 THEN <<>>
    ELSE (IF str[1] = "\"" THEN <<"\"", "\"">> ELSE << str[1] >>)
         \o DoubleQuotes(Tail(str))

Includes(str, piece) == \E j \in 1..Len(str) : str[j] = piece

\* Mutant: the value is wrapped in quotes but its quotes are not doubled.
CsvValueWrappedOnly(value) ==
    LET str == value[2]
    IN IF Includes(str, ",") \/ Includes(str, "\"") \/ Includes(str, "\n")
       THEN <<"\"">> \o str \o <<"\"">>
       ELSE str

\* Lines 93-98: String(value ?? '') and its escaping.
CsvValue(value) ==
    LET str == value[2]
    IN IF Includes(str, ",") \/ Includes(str, "\"") \/ Includes(str, "\n")
       THEN <<"\"">> \o DoubleQuotes(str) \o <<"\"">>
       ELSE str

CsvRow(token, headers) ==
    JoinWith([j \in 1..Len(headers) |-> Str(CsvValue(GetField(token, headers[j])))], ",")

\* Mutant: the loop over the tokens starts after the first one.
CsvLinesAfterFirst(tokens, headers) ==
    << Str(JoinWith([j \in 1..Len(headers) |-> Str(<< headers[j] >>)], ",")) >>
    \o [p \in 1..(Len(tokens) - 1) |-> Str(CsvRow(tokens[p + 1], headers))]

\* Lines 89-103: the header line and one line per token.
CsvLines(tokens, headers) ==
    << Str(JoinWith([j \in 1..Len(headers) |-> Str(<< headers[j] >>)], ",")) >>
    \o [p \in 1..Len(tokens) |-> Str(CsvRow(tokens[p], headers))]

toCSV(documents) ==
    LET refs == AllTokensOf(documents, Len(documents))
        tokens == [p \in 1..Len(refs) |-> TokenAt(documents, refs[p])]
    IN IF Len(tokens) = 0 THEN <<>>
       ELSE JoinWith(CsvLines(tokens, ObjectKeys(tokens[1])), "\n")

\* Mutant: the documents in reverse order.
toJSONReversed(documents) ==
    [d \in 1..Len(documents) |-> << Len(documents) + 1 - d >>]

\* this.documents.map((doc) => doc.tokens): a new array holding the
\* documents' own token arrays, each known by its address <<d>>.
toJSON(documents) == [d \in 1..Len(documents) |-> << d >>]

\* What an operation returned: the operation, its argument, the addresses of
\* the objects in the returned array, and the returned string.
Returned(op, arg, refs, str) == [op |-> op, arg |-> arg, refs |-> refs, str |-> str]

\* ------------------------------------------------- decode/export inputs
\* Field lists the service can be asked for, and the rows of an ordinary
\* token and of a whitespace token.
AnnotationLists ==
    { <<"text", "lemma", "pos", "tag">>, <<"text", "lemma">>,
      <<"lemma", "text", "is_stop", "is_alpha">>, <<"tag", "pos", "text">> }

\* The third and fourth rows hold the values a CSV export has to quote.
SampleTokens ==
    << [text |-> <<"Hello">>, lemma |-> <<"hello">>, pos |-> <<"INTJ">>,
        tag |-> <<"UH">>, is_stop |-> <<"true">>, is_alpha |-> <<"True">>],
       [text |-> <<"\n">>, lemma |-> <<"\n">>, pos |-> <<>>,
        tag |-> <<"_SP">>, is_stop |-> <<"false">>, is_alpha |-> <<"TRUE">>],
       [text |-> <<"Hello", ",", " ", "world">>, lemma |-> <<"hello">>,
        pos |-> <<"INTJ">>, tag |-> <<"UH">>, is_stop |-> <<"false">>,
        is_alpha |-> <<"false">>],
       [text |-> <<"\"", "hi", "\"">>, lemma |-> <<"\"">>, pos |-> <<"PUNCT">>,
        tag |-> <<"''">>, is_stop |-> <<"false">>, is_alpha |-> <<"false">>] >>

OrdinarySamples == {1, 2}
QuotedSamples == {3, 4}
PosTags == {"INTJ", "ADJ"}

SeqsUpTo(S, n) == UNION { [1..k -> S] : k \in 0..n }

TokenRow(annotations, sample) ==
    [f \in 1..Len(annotations) |-> SampleTokens[sample][annotations[f]]]

RawResponses ==
    { [annotations |-> a,
       tokens |-> [d \in 1..Len(shape) |->
                     [t \in 1..Len(shape[d]) |-> TokenRow(a, shape[d][t])]],
       model |-> "en_core_web_sm",
       processing_time_ms |-> 10] :
      a \in AnnotationLists,
      shape \in SeqsUpTo(SeqsUpTo(OrdinarySamples, MaxDocTokens), MaxDocs) }

\* One-document responses whose values hold commas and double quotes.
QuotedResponses ==
    { [annotations |-> a,
       tokens |-> << [t \in 1..Len(row) |-> TokenRow(a, row[t])] >>,
       model |-> "en_core_web_sm",
       processing_time_ms |-> 10] :
      a \in AnnotationLists,
      row \in SeqsUpTo(QuotedSamples, MaxDocTokens) \ {<<>>} }

NoResponse ==
    [annotations |-> <<>>, tokens |-> <<>>, model |-> "", processing_time_ms |-> 0]

\* ------------------------------------------------------------- state
VARIABLES
    texts,                \* the argument of process / processStream
    mode,                 \* "process" or "stream": which operation is driven
    config,               \* BatchProcessor.config
    clientConfig,         \* SpacyNLP.config
    bpc,                  \* position of the operation's body
    i,                    \* loop index of the operation
    allAnnotations,       \* process: field list of the aggregate
    allTokens,            \* process: documents of the aggregate
    totalProcessingTime,  \* process: summed durations
    progress,             \* the onProgress invocations so far, <<processed, total>>
    lemCalls,             \* the texts arguments of the lemmatize calls so far
    req,                  \* per lemmatize call: its request invocation
    procs,                \* per concurrent process call: its texts and locals
    result,               \* <<value process resolved with>>
    failure,              \* <<error the operation rejected with>>
    yielded,              \* stream: the results delivered to the consumer
    latePulls,            \* stream: next() calls made after the generator ended
    rawResponse,          \* the response object a caller decodes
    decoded,              \* <<the LemmatizationResultImpl built from it>>
    vertical,             \* <<the string toVertical returned>>
    returned,             \* <<what the latest of the other operations returned>>
    callArgs              \* per direct lemmatize call: <<its arguments>>

vars == <<texts, mode, config, clientConfig, bpc, i, allAnnotations, allTokens,
          totalProcessingTime, progress, lemCalls, req, result, failure, yielded,
          latePulls, rawResponse, decoded, vertical, returned, callArgs, procs>>

batchVars == <<bpc, i, allAnnotations, allTokens, totalProcessingTime, progress,
               lemCalls, result, failure, yielded, latePulls>>

constVars == <<texts, mode, config, clientConfig, rawResponse, decoded, vertical,
               returned, callArgs, procs>>

resultVars == <<rawResponse, decoded, vertical, returned>>

orchestratorVars == <<texts, mode, config, clientConfig, req, batchVars, callArgs,
                      procs>>

\* -------------------------------------------------- SpacyNLP.request
\* One invocation of request (with its recursive retries): position, the
\* attempt parameter, the pending timeout timers (each known by the attempt
\* whose line 49 armed it), whether an abort has hit an attempt that had
\* already ended, and what the invocation has done so far.
NoInvocation ==
    [pc |-> "none", args |-> <<>>, attempt |-> 0, timers |-> {},
     abortedFinished |-> FALSE, calls |-> <<>>, waits |-> <<>>, failed |-> 0, onlyRetryable |-> TRUE,
     got4xx |-> FALSE, lastFailure |-> <<>>, response |-> <<>>,
     result |-> <<>>, error |-> <<>>]

\* The settled promise once its awaiter has taken the outcome: only the
\* value it resolved with, or the reason it rejected with, is kept.
Consumed(r) ==
    [NoInvocation EXCEPT !.pc = "consumed", !.error = r.error, !.result = r.result]

InFlight(r) == r.pc \in {"fetch", "json", "delay"}

\* The timer armed by the current attempt (timeoutId of line 49) is pending.
TimerArmed(r) == r.attempt \in r.timers
Settled(r) == r.pc \in {"resolved", "rejected"}

\* JSON.stringify of a request body: its defined properties, in the order of
\* the object literal (lines 109-113); an undefined property is left out.
JsonStringify(body) ==
    << <<"model", body.model>>, <<"texts", body.texts>> >>
    \o (IF body.fields = <<>> THEN <<>> ELSE << <<"fields", body.fields[1]>> >>)

\* Mutant: the timer is left pending.
ClearTimeoutNothing(r) == r

\* Lines 61 and 74: clearTimeout(timeoutId), the timer of the current attempt.
ClearTimeout(r) == [r EXCEPT !.timers = @ \ {r.attempt}]

\* Mutant: a retry is sent without the request body.
BeginAttemptRetryWithoutBody(r, args, attempt) ==
    [r EXCEPT !.pc = "fetch", !.args = <<args>>, !.attempt = attempt,
              !.timers = @ \cup {attempt}, !.response = <<>>,
              !.calls = Append(@, [endpoint |-> args.endpoint, method |-> args.method,
                                   body |-> IF attempt = 1
                                            THEN JsonStringify(args.body) ELSE <<>>,
                                   attempt |-> attempt])]

\* Mutant: the attempt starts without a timer of its own.
BeginAttemptNoTimer(r, args, attempt) ==
    [r EXCEPT !.pc = "fetch", !.args = <<args>>, !.attempt = attempt,
              !.response = <<>>,
              !.calls = Append(@, [endpoint |-> args.endpoint, method |-> args.method,
                                   body |-> JsonStringify(args.body),
                                   attempt |-> attempt])]

\* Lines 45-59: arm the timer and issue the fetch of this attempt.
BeginAttempt(r, args, attempt) ==
    [r EXCEPT !.pc = "fetch", !.args = <<args>>, !.attempt = attempt,
              !.timers = @ \cup {attempt}, !.response = <<>>,
              !.calls = Append(@, [endpoint |-> args.endpoint, method |-> args.method,
                                   body |-> JsonStringify(args.body),
                                   attempt |-> attempt])]

\* Mutant: an aborted call is taken for a failure that must not be retried.
IsClientErrorOrAbort(error) ==
    \/ error.name = "AbortError"
    \/ /\ IsSpacyNLPError(error)
       /\ error.statusCode # <<>>
       /\ error.statusCode[1] # 0
       /\ error.statusCode[1] < 500

\* Line 77: a SpacyNLPError with a truthy status code below 500.
IsClientError(error) ==
    /\ IsSpacyNLPError(error)
    /\ error.statusCode # <<>>
    /\ error.statusCode[1] # 0
    /\ error.statusCode[1] < 500

\* Mutant: the last permitted attempt is never made.
ShouldRetryOneLess(attempt, retries) == attempt < retries - 1

\* Mutant: one attempt too many.
ShouldRetryOneMore(attempt, retries) == attempt <= retries

\* Line 82.
ShouldRetry(attempt, retries) == attempt < retries

\* Mutant: the exponent is the attempt number instead of attempt - 1.
BackoffDelayDoubled(retryDelay, attempt) == retryDelay * Pow2(attempt)

\* Line 83.
BackoffDelay(retryDelay, attempt) == retryDelay * Pow2(attempt - 1)

\* Lines 93-95.
ExhaustedError(attempt, error) ==
    SpacyNLPError(<<"Request failed after", attempt, "attempts:", error.message[1]>>,
                  <<>>, <<>>)

\* A failure the service contract calls retryable: no response at all (a
\* transport failure or an aborted call) or a response with status >= 500.
RetryableKind(kind, status) ==
    kind \in {"transport", "timeout"} \/ (kind = "http" /\ status >= 500)

\* Lines 73-96: the catch block, entered with the error the attempt threw.
Catch(r, kind, status, error, cc) ==
    LET h == [ClearTimeout(r) EXCEPT
                       !.failed = @ + 1,
                       !.onlyRetryable = @ /\ RetryableKind(kind, status),
                       !.lastFailure = <<[kind |-> kind, status |-> status,
                                          error |-> error]>>]
    IN IF IsClientError(error)
       THEN [h EXCEPT !.pc = "rejected", !.error = <<error>>]
       ELSE IF ShouldRetry(r.attempt, cc.retries)
       THEN [h EXCEPT !.pc = "delay",
                      !.waits = Append(@, BackoffDelay(cc.retryDelay, r.attempt))]
       ELSE IF IsSpacyNLPError(error)
       THEN [h EXCEPT !.pc = "rejected", !.error = <<error>>]
       ELSE [h EXCEPT !.pc = "rejected",
                      !.error = <<ExhaustedError(r.attempt, error)>>]

\* Lines 63-69: the error thrown for a non-ok response whose body parsed.
HttpError(resp) ==
    LET errorData == resp.body.envelope[1]
    IN SpacyNLPError(IF errorData.error # "" THEN <<errorData.error>>
                     ELSE <<"HTTP", resp.status>>,
                     <<resp.status>>, <<errorData>>)

\* fetch rejects: no response at all.
FetchReject(k) ==
    /\ req[k].pc = "fetch"
    /\ req' = [req EXCEPT ![k] = Catch(@, "transport", 0, NetworkError, clientConfig)]
    /\ UNCHANGED <<batchVars, constVars>>

\* A timer of line 49 fires: controller.abort() on the controller of the
\* attempt that armed it. While that attempt is waiting on the network the
\* wait rejects with an AbortError; on an attempt that has ended the abort
\* finds nothing to interrupt.
TimeoutAbort(k) ==
    /\ \E a \in req[k].timers :
          req' = [req EXCEPT ![k] =
                    IF a = @.attempt /\ @.pc \in {"fetch", "json"}
                    THEN Catch(@, "timeout", 0, AbortError, clientConfig)
                    ELSE [@ EXCEPT !.timers = @ \ {a}, !.abortedFinished = TRUE]]
    /\ UNCHANGED <<batchVars, constVars>>

\* fetch resolves with a response (line 52); line 61 clears the timer, and
\* both branches go on to await response.json().
FetchResolve(k) ==
    /\ req[k].pc = "fetch"
    /\ \E resp \in HttpResponses(req[k].args[1].body) :
          req' = [req EXCEPT ![k] =
                    [ClearTimeout(@) EXCEPT !.pc = "json",
                              !.response = <<resp>>,
                              !.got4xx = @ \/ (resp.status >= 400 /\ resp.status < 500)]]
    /\ UNCHANGED <<batchVars, constVars>>

\* response.json() settles (lines 64 and 72).
JsonSettle(k) ==
    /\ req[k].pc = "json"
    /\ LET r == req[k]
           resp == r.response[1]
       IN req' = [req EXCEPT ![k] =
            IF resp.body.kind = "invalid"
            THEN Catch(r, IF resp.ok THEN "body" ELSE "http", resp.status,
                       InvalidJsonError, clientConfig)
            ELSE IF ~resp.ok
            THEN Catch(r, "http", resp.status, HttpError(resp), clientConfig)
            ELSE [r EXCEPT !.pc = "resolved", !.result = resp.body.payload]]
    /\ UNCHANGED <<batchVars, constVars>>

\* Mutant: the retry re-enters request with the same attempt number.
DelayElapsedSameAttempt(k) ==
    /\ req[k].pc = "delay"
    /\ req' = [req EXCEPT ![k] = BeginAttempt(@, @.args[1], @.attempt)]
    /\ UNCHANGED <<batchVars, constVars>>

\* The backoff wait of line 84 ends; line 85 re-enters request.
DelayElapsed(k) ==
    /\ req[k].pc = "delay"
    /\ req' = [req EXCEPT ![k] = BeginAttempt(@, @.args[1], @.attempt + 1)]
    /\ UNCHANGED <<batchVars, constVars>>

\* ------------------------------------------------- SpacyNLP.lemmatize
\* Lines 102-119: the request body and the POST /lemmatize invocation.
LemmatizeArgs(textsArg, model, fields) ==
    [endpoint |-> "/lemmatize", method |-> "POST",
     body |-> [model |-> model, texts |-> textsArg, fields |-> fields]]

\* A texts argument is a string or an array of strings.
StringArg(text) == <<"string", text>>
ArrayArg(textsArray) == <<"array", textsArray>>

\* Mutant: of an array only the first text is sent.
TextsArrayOfHead(textsGiven) ==
    IF textsGiven[1] = "array" THEN << textsGiven[2][1] >> ELSE << textsGiven[2] >>

\* Line 106: Array.isArray(texts) ? texts : [texts]
TextsArrayOf(textsGiven) ==
    IF textsGiven[1] = "array" THEN textsGiven[2] ELSE << textsGiven[2] >>

lemmatize(textsGiven, model, fields) ==
    BeginAttempt(NoInvocation,
                 LemmatizeArgs(TextsArrayOf(textsGiven), model, fields), 1)

\* ---------------------------------------------------- BatchProcessor
\* Line 24: config.batchSize || DEFAULT_BATCH_SIZE (0 and undefined are falsy).
BatchSizeOf(configured) == IF configured = 0 THEN DEFAULT_BATCH_SIZE ELSE configured

\* Math.ceil(n / b) for n >= 0 and b # 0.
CeilDiv(n, b) == IF b > 0 THEN (n + b - 1) \div b ELSE -(n \div (-b))

\* Mutant: the trailing partial batch is dropped (floor instead of ceil).
TotalBatchesFloor(n, batchSize) ==
    IF batchSize > 0 THEN n \div batchSize ELSE CeilDiv(n, batchSize)

\* Lines 38 and 84.
TotalBatchesOf(n, batchSize) == CeilDiv(n, batchSize)

\* Array.prototype.slice(start, end).
Slice(t, start, end) ==
    LET n == Len(t)
        from == IF start < 0 THEN Max(n + start, 0) ELSE Min(start, n)
        to == IF end < 0 THEN Max(n + end, 0) ELSE Min(end, n)
    IN SubSeq(t, from + 1, to)

\* Mutant: the end of the last batch is not clamped to the input length.
BatchEndUnclamped(t, idx, batchSize) == idx * batchSize + batchSize

\* Lines 44-46 and 87-89.
BatchStart(idx, batchSize) == idx * batchSize
BatchEnd(t, idx, batchSize) == Min(BatchStart(idx, batchSize) + batchSize, Len(t))
BatchAt(t, idx, batchSize) ==
    Slice(t, BatchStart(idx, batchSize), BatchEnd(t, idx, batchSize))

\* Mutant: the emptiness check is missing.
IsEmptyInputNever(t) == FALSE

\* Lines 34 and 80.
IsEmptyInput(t) == Len(t) = 0

\* Lines 61 and 95: the arguments handed to onProgress.
ProgressArgs(end, total) == <<end, total>>

\* Mutant: every remaining batch is requested at once (Promise.all style).
BatchesToIssueAll(idx, total) == {k \in BatchIds : idx <= k /\ k < total}

\* Lines 43-48 and 86-91: one loop iteration awaits exactly one lemmatize
\* call, that of batch idx, before the next iteration starts.
BatchesToIssue(idx, total) == {idx}

\* Mutant: the rejection is caught and replaced by a generic error.
RethrownWrapped(error) == MkError("Error", <<"Batch failed">>)

\* Line 48 / 91: the await has no try/catch around it, so the rejection of
\* lemmatize is the rejection of the operation.
Rethrown(error) == error

TotalBatches == TotalBatchesOf(Len(texts), config.batchSize)

\* Mutant: the field list is overwritten by every batch.
AccumulateAnnotationsLast(all, idx, response) == response.annotations

\* Lines 50-53: the field list of the first batch only.
AccumulateAnnotations(all, idx, response) ==
    IF idx = 0 THEN all \o response.annotations ELSE all

\* Mutant: a batch's documents are put in front of the earlier ones.
AccumulateTokensPrepend(all, response) == response.tokens \o all

\* Line 56.
AccumulateTokens(all, response) == all \o response.tokens

\* Mutant: the duration is overwritten instead of summed.
AccumulateTimeLast(total, response) == response.processing_time_ms

\* Line 57.
AccumulateTime(total, response) == total + response.processing_time_ms

\* Mutant: the documents of the last batch are left out of the aggregate.
CombinedResultWithoutLast(annotations, tokens, time) ==
    LemmatizationResultImpl([annotations |-> annotations,
                             tokens |-> SubSeq(tokens, 1, Len(tokens) - 1),
                             model |-> config.model, processing_time_ms |-> time])

\* Lines 66-73.
CombinedResult(annotations, tokens, time) ==
    LemmatizationResultImpl([annotations |-> annotations, tokens |-> tokens,
                             model |-> config.model, processing_time_ms |-> time])

\* The loop head at index idx: either the next lemmatize call is issued and
\* awaited, or the loop is over and the body runs to its end.
LoopFrom(idx, reqBase, finished) ==
    IF idx < TotalBatches
    THEN LET issue == BatchesToIssue(idx, TotalBatches)
         IN /\ i' = idx
            /\ bpc' = "awaiting"
            /\ req' = [k \in BatchIds |->
                         IF k \in issue
                         THEN lemmatize(ArrayArg(BatchAt(texts, k, config.batchSize)),
                                        config.model, config.fields)
                         ELSE reqBase[k]]
            /\ lemCalls' = lemCalls \o
                             [j \in 1..Cardinality(issue) |->
                                BatchAt(texts, idx + j - 1, config.batchSize)]
            /\ result' = result
    ELSE /\ i' = idx
         /\ bpc' = "returned"
         /\ req' = reqBase
         /\ lemCalls' = lemCalls
         /\ result' = finished

\* Mutant: the progress callback is invoked for the failed batch too.
ThrowAfterProgress(error, reqBase) ==
    /\ bpc' = "thrown"
    /\ failure' = <<error>>
    /\ req' = reqBase
    /\ progress' = IF config.onProgress /\ Len(lemCalls) > 0
                   THEN Append(progress,
                               ProgressArgs(BatchEnd(texts, i, config.batchSize),
                                            Len(texts)))
                   ELSE progress
    /\ UNCHANGED <<i, allAnnotations, allTokens, totalProcessingTime,
                   lemCalls, result, yielded, latePulls>>

Throw(error, reqBase) ==
    /\ bpc' = "thrown"
    /\ failure' = <<error>>
    /\ req' = reqBase
    /\ UNCHANGED <<i, allAnnotations, allTokens, totalProcessingTime, progress,
                   lemCalls, result, yielded, latePulls>>

\* process(texts) is called: lines 34-48 up to the first await.
CallProcess ==
    /\ mode = "process"
    /\ bpc = "idle"
    /\ IF IsEmptyInput(texts)
       THEN Throw(EmptyInputError, req)
       ELSE /\ LoopFrom(0, req, <<CombinedResult(allAnnotations, allTokens,
                                                 totalProcessingTime)>>)
            /\ UNCHANGED <<allAnnotations, allTokens, totalProcessingTime, progress,
                           failure, yielded, latePulls>>
    /\ UNCHANGED constVars

\* The awaited lemmatize call of process has settled: lines 48-63, then the
\* next iteration up to its await, or lines 66-73.
ProcessResume ==
    /\ mode = "process"
    /\ bpc = "awaiting"
    /\ Settled(req[i])
    /\ IF req[i].pc = "rejected"
       THEN Throw(Rethrown(req[i].error[1]), [req EXCEPT ![i] = Consumed(@)])
       ELSE LET response == req[i].result[1]
                end == BatchEnd(texts, i, config.batchSize)
            IN /\ allAnnotations' = AccumulateAnnotations(allAnnotations, i, response)
               /\ allTokens' = AccumulateTokens(allTokens, response)
               /\ totalProcessingTime' = AccumulateTime(totalProcessingTime, response)
               /\ progress' = IF config.onProgress
                              THEN Append(progress, ProgressArgs(end, Len(texts)))
                              ELSE progress
               /\ LoopFrom(i + 1, [req EXCEPT ![i] = Consumed(@)],
                           <<CombinedResult(allAnnotations', allTokens',
                                            totalProcessingTime')>>)
               /\ UNCHANGED <<failure, yielded, latePulls>>
    /\ UNCHANGED constVars

\* The consumer's first next() on the generator: lines 80-91 up to the await.
FirstPull ==
    /\ mode = "stream"
    /\ bpc = "idle"
    /\ IF IsEmptyInput(texts)
       THEN Throw(EmptyInputError, req)
       ELSE /\ LoopFrom(0, req, result)
            /\ UNCHANGED <<allAnnotations, allTokens, totalProcessingTime, progress,
                           failure, yielded, latePulls>>
    /\ UNCHANGED constVars

\* Mutant: the generator requests the next batch before it suspends at the
\* yield (prefetch).
StreamResumePrefetch ==
    /\ mode = "stream"
    /\ bpc = "awaiting"
    /\ Settled(req[i])
    /\ IF req[i].pc = "rejected"
       THEN Throw(Rethrown(req[i].error[1]), [req EXCEPT ![i] = Consumed(@)])
       ELSE LET response == req[i].result[1]
                end == BatchEnd(texts, i, config.batchSize)
                more == i + 1 < TotalBatches
            IN /\ progress' = IF config.onProgress
                              THEN Append(progress, ProgressArgs(end, Len(texts)))
                              ELSE progress
               /\ yielded' = Append(yielded, LemmatizationResultImpl(response))
               /\ bpc' = "suspended"
               /\ req' = [k \in BatchIds |->
                            IF k = i THEN Consumed(req[i])
                            ELSE IF more /\ k = i + 1
                            THEN lemmatize(ArrayArg(BatchAt(texts, k, config.batchSize)),
                                           config.model, config.fields)
                            ELSE req[k]]
               /\ lemCalls' = IF more
                              THEN Append(lemCalls, BatchAt(texts, i + 1, config.batchSize))
                              ELSE lemCalls
               /\ UNCHANGED <<i, allAnnotations, allTokens, totalProcessingTime,
                              result, failure, latePulls>>
    /\ UNCHANGED constVars

\* Mutant: the generator yields without reporting progress.
StreamResumeSilent ==
    /\ mode = "stream"
    /\ bpc = "awaiting"
    /\ Settled(req[i])
    /\ IF req[i].pc = "rejected"
       THEN Throw(Rethrown(req[i].error[1]), [req EXCEPT ![i] = Consumed(@)])
       ELSE /\ yielded' = Append(yielded, LemmatizationResultImpl(req[i].result[1]))
            /\ bpc' = "suspended"
            /\ req' = [req EXCEPT ![i] = Consumed(@)]
            /\ UNCHANGED <<i, allAnnotations, allTokens, totalProcessingTime, progress,
                           lemCalls, result, failure, latePulls>>
    /\ UNCHANGED constVars

\* The awaited lemmatize call of the generator has settled: lines 91-98, up
\* to the yield that hands the batch's result to the consumer.
StreamResume ==
    /\ mode = "stream"
    /\ bpc = "awaiting"
    /\ Settled(req[i])
    /\ IF req[i].pc = "rejected"
       THEN Throw(Rethrown(req[i].error[1]), [req EXCEPT ![i] = Consumed(@)])
       ELSE LET response == req[i].result[1]
                end == BatchEnd(texts, i, config.batchSize)
            IN /\ progress' = IF config.onProgress
                              THEN Append(progress, ProgressArgs(end, Len(texts)))
                              ELSE progress
               /\ yielded' = Append(yielded, LemmatizationResultImpl(response))
               /\ bpc' = "suspended"
               /\ req' = [req EXCEPT ![i] = Consumed(@)]
               /\ UNCHANGED <<i, allAnnotations, allTokens, totalProcessingTime,
                              lemCalls, result, failure, latePulls>>
    /\ UNCHANGED constVars

\* A further next() on the suspended generator: the loop goes on from the
\* yield (line 98) to the next await, or ends the generator.
NextPull ==
    /\ mode = "stream"
    /\ bpc = "suspended"
    /\ LoopFrom(i + 1, req, result)
    /\ UNCHANGED <<allAnnotations, allTokens, totalProcessingTime, progress,
                   failure, yielded, latePulls>>
    /\ UNCHANGED constVars

\* The consumer closes the generator (return(), or leaving a for await loop
\* early) while it is not running: the body is never resumed.
CloseStream ==
    /\ mode = "stream"
    /\ bpc \in {"idle", "suspended"}
    /\ bpc' = "closed"
    /\ UNCHANGED <<i, allAnnotations, allTokens, totalProcessingTime, progress,
                   lemCalls, req, result, failure, yielded, latePulls>>
    /\ UNCHANGED constVars

\* next() on a generator that has returned, thrown or been closed: it
\* answers done.
LatePull ==
    /\ mode = "stream"
    /\ bpc \in {"returned", "thrown", "closed"}
    /\ latePulls < MaxLatePulls
    /\ latePulls' = latePulls + 1
    /\ UNCHANGED <<bpc, i, allAnnotations, allTokens, totalProcessingTime, progress,
                   lemCalls, req, result, failure, yielded>>
    /\ UNCHANGED constVars

\* Two process calls on one BatchProcessor: the argument and the locals of
\* each call (lines 33-42), before it is made.
ProcessCallIds == {0, 1}

NoProcessCall ==
    [pc |-> "idle", texts |-> <<>>, i |-> 0, allAnnotations |-> <<>>,
     allTokens |-> <<>>, totalProcessingTime |-> 0, progress |-> <<>>,
     lemCalls |-> <<>>, result |-> <<>>, failure |-> <<>>]

NoProcessCalls == [p \in ProcessCallIds |-> NoProcessCall]

\* ------------------------------------------------------ specification
Init ==
    /\ texts \in TextInputs
    /\ mode \in {"process", "stream"}
    /\ config \in [model : {"en_core_web_sm"},
                   batchSize : {BatchSizeOf(c) : c \in BatchSizeInputs},
                   fields : {<<>>},
                   onProgress : BOOLEAN]
    /\ clientConfig \in [retries : RetriesInputs, retryDelay : RetryDelayInputs]
    /\ bpc = "idle"
    /\ i = 0
    /\ allAnnotations = <<>>
    /\ allTokens = <<>>
    /\ totalProcessingTime = 0
    /\ progress = <<>>
    /\ lemCalls = <<>>
    /\ req = [k \in BatchIds |-> NoInvocation]
    /\ result = <<>>
    /\ failure = <<>>
    /\ yielded = <<>>
    /\ latePulls = 0
    /\ rawResponse = NoResponse
    /\ decoded = <<>>
    /\ vertical = <<>>
    /\ returned = <<>>
    /\ callArgs = [k \in BatchIds |-> <<>>]
    /\ procs = NoProcessCalls

Next ==
    \/ CallProcess
    \/ ProcessResume
    \/ FirstPull
    \/ StreamResume
    \/ NextPull
    \/ CloseStream
    \/ LatePull
    \/ \E k \in BatchIds : FetchReject(k)
    \/ \E k \in BatchIds : TimeoutAbort(k)
    \/ \E k \in BatchIds : FetchResolve(k)
    \/ \E k \in BatchIds : JsonSettle(k)
    \/ \E k \in BatchIds : DelayElapsed(k)

Spec == Init /\ [][Next]_vars

\* ------------------------------------- decode and export of one response
\* new LemmatizationResultImpl(response)
Construct ==
    /\ decoded = <<>>
    /\ decoded' = << LemmatizationResultImpl(rawResponse) >>
    /\ rawResponse' = ResponseAfterParse(rawResponse)
    /\ UNCHANGED <<vertical, returned, orchestratorVars>>

\* result.toVertical()
ToVertical ==
    /\ decoded # <<>>
    /\ vertical = <<>>
    /\ vertical' = << toVertical(decoded[1].documents) >>
    /\ UNCHANGED <<rawResponse, decoded, returned, orchestratorVars>>

\* result.allTokens()
AllTokens ==
    /\ decoded # <<>>
    /\ returned' = << Returned("allTokens", "",
                               AllTokensOf(decoded[1].documents,
                                           Len(decoded[1].documents)), <<>>) >>
    /\ UNCHANGED <<rawResponse, decoded, vertical, orchestratorVars>>

\* result.filterTokens((token) => token.pos === posTag)
FilterTokens ==
    /\ decoded # <<>>
    /\ \E posTag \in PosTags :
          returned' = << Returned("filterTokens", posTag,
                                  filterTokens(decoded[1].documents, posTag), <<>>) >>
    /\ UNCHANGED <<rawResponse, decoded, vertical, orchestratorVars>>

\* result.toCSV()
ToCSV ==
    /\ decoded # <<>>
    /\ returned' = << Returned("toCSV", "", <<>>, toCSV(decoded[1].documents)) >>
    /\ UNCHANGED <<rawResponse, decoded, vertical, orchestratorVars>>

\* result.toJSON()
ToJSON ==
    /\ decoded # <<>>
    /\ returned' = << Returned("toJSON", "", toJSON(decoded[1].documents), <<>>) >>
    /\ UNCHANGED <<rawResponse, decoded, vertical, orchestratorVars>>

ResultInit ==
    /\ texts = <<>>
    /\ mode = "process"
    /\ config = [model |-> "en_core_web_sm", batchSize |-> DEFAULT_BATCH_SIZE,
                 fields |-> <<>>, onProgress |-> FALSE]
    /\ clientConfig = [retries |-> MaxRetries, retryDelay |-> DefaultRetryDelay]
    /\ bpc = "idle"
    /\ i = 0
    /\ allAnnotations = <<>>
    /\ allTokens = <<>>
    /\ totalProcessingTime = 0
    /\ progress = <<>>
    /\ lemCalls = <<>>
    /\ req = [k \in BatchIds |-> NoInvocation]
    /\ result = <<>>
    /\ failure = <<>>
    /\ yielded = <<>>
    /\ latePulls = 0
    /\ rawResponse \in RawResponses \cup QuotedResponses
    /\ decoded = <<>>
    /\ vertical = <<>>
    /\ returned = <<>>
    /\ callArgs = [k \in BatchIds |-> <<>>]
    /\ procs = NoProcessCalls

\* The tests build the result in beforeEach and call one operation on it.
Untouched == vertical = <<>> /\ returned = <<>>

ResultNext ==
    \/ Construct
    \/ Untouched /\ ToVertical
    \/ Untouched /\ AllTokens
    \/ Untouched /\ FilterTokens
    \/ Untouched /\ ToCSV
    \/ Untouched /\ ToJSON

ResultSpec == ResultInit /\ [][ResultNext]_vars

\* ------------------------------------ a caller holding returned objects
\* The first token object reachable from the returned array: returned[0]
\* of allTokens and filterTokens, returned[0][0] of toJSON.
FirstReturnedToken ==
    IF returned[1].op = "toJSON"
    THEN << returned[1].refs[1][1], 1 >>
    ELSE returned[1].refs[1]

HoldsToken ==
    /\ returned # <<>>
    /\ returned[1].op \in {"allTokens", "filterTokens", "toJSON"}
    /\ Len(returned[1].refs) > 0
    /\ returned[1].op = "toJSON" =>
          Len(decoded[1].documents[returned[1].refs[1][1]].tokens) > 0

\* The caller assigns to a field of a token it was handed: the arrays that
\* allTokens, filterTokens and toJSON return hold the result's own token
\* objects (lines 54, 58, 108 copy no token).
CallerWritesToken ==
    /\ HoldsToken
    /\ LET a == FirstReturnedToken
       IN decoded' = << [decoded[1] EXCEPT
                           !.documents[a[1]].tokens[a[2]] =
                               SetField(@, "lemma", Str(<<"changed">>))] >>
    /\ UNCHANGED <<rawResponse, vertical, returned, orchestratorVars>>

\* The caller empties the tokens of the response it passed in: this.raw is
\* that same object (line 49), the documents are not.
CallerClearsResponse ==
    /\ decoded # <<>>
    /\ rawResponse.tokens # <<>>
    /\ rawResponse' = [rawResponse EXCEPT !.tokens = <<>>]
    /\ decoded' = << [decoded[1] EXCEPT !.raw = rawResponse'] >>
    /\ UNCHANGED <<vertical, returned, orchestratorVars>>

AliasInit ==
    /\ ResultInit
    /\ rawResponse.annotations = <<"text", "lemma", "pos", "tag">>

AliasNext ==
    \/ Construct
    \/ ToVertical
    \/ AllTokens
    \/ FilterTokens
    \/ ToCSV
    \/ ToJSON
    \/ CallerWritesToken
    \/ CallerClearsResponse

AliasSpec == AliasInit /\ [][AliasNext]_vars

\* ------------------------------------------ direct calls of lemmatize
TextsGiven == { StringArg("t1"), ArrayArg(<<"t1", "t2">>), ArrayArg(<<"t3">>) }
FieldsGiven == { <<>>, << <<"text", "lemma">> >> }

\* client.lemmatize(texts, model, fields), called by a user of the client.
CallLemmatize(k, textsGiven, model, fields) ==
    /\ req[k].pc = "none"
    /\ callArgs[k] = <<>>
    /\ req' = [req EXCEPT ![k] = lemmatize(textsGiven, model, fields)]
    /\ callArgs' = [callArgs EXCEPT ![k] =
                       << [texts |-> textsGiven, model |-> model, fields |-> fields] >>]
    /\ UNCHANGED <<batchVars, texts, mode, config, clientConfig, resultVars, procs>>

IdleOrchestrator ==
    /\ texts = <<>>
    /\ mode = "process"
    /\ config = [model |-> "en_core_web_sm", batchSize |-> DEFAULT_BATCH_SIZE,
                 fields |-> <<>>, onProgress |-> FALSE]
    /\ bpc = "idle"
    /\ i = 0
    /\ allAnnotations = <<>>
    /\ allTokens = <<>>
    /\ totalProcessingTime = 0
    /\ progress = <<>>
    /\ lemCalls = <<>>
    /\ req = [k \in BatchIds |-> NoInvocation]
    /\ result = <<>>
    /\ failure = <<>>
    /\ yielded = <<>>
    /\ latePulls = 0
    /\ rawResponse = NoResponse
    /\ decoded = <<>>
    /\ vertical = <<>>
    /\ returned = <<>>
    /\ callArgs = [k \in BatchIds |-> <<>>]
    /\ procs = NoProcessCalls

ClientInit ==
    /\ IdleOrchestrator
    /\ clientConfig \in [retries : RetriesInputs, retryDelay : RetryDelayInputs]

ClientNext ==
    \/ \E textsGiven \in TextsGiven, fields \in FieldsGiven :
          CallLemmatize(0, textsGiven, "en_core_web_sm", fields)
    \/ \E k \in BatchIds : FetchReject(k)
    \/ \E k \in BatchIds : TimeoutAbort(k)
    \/ \E k \in BatchIds : FetchResolve(k)
    \/ \E k \in BatchIds : JsonSettle(k)
    \/ \E k \in BatchIds : DelayElapsed(k)

ClientSpec == ClientInit /\ [][ClientNext]_vars

\* Two calls on the same client, neither awaited before the other is made.
ConcurrentInit ==
    /\ IdleOrchestrator
    /\ clientConfig \in [retries : RetriesInputs, retryDelay : {DefaultRetryDelay}]

ConcurrentNext ==
    \/ CallLemmatize(0, StringArg("t1"), "en_core_web_sm", <<>>)
    \/ CallLemmatize(1, ArrayArg(<<"t2", "t3">>), "en_core_web_sm", <<>>)
    \/ \E k \in BatchIds : FetchReject(k)
    \/ \E k \in BatchIds : TimeoutAbort(k)
    \/ \E k \in BatchIds : FetchResolve(k)
    \/ \E k \in BatchIds : JsonSettle(k)
    \/ \E k \in BatchIds : DelayElapsed(k)

ConcurrentSpec == ConcurrentInit /\ [][ConcurrentNext]_vars

\* ============================================================ claims
Invocations == {k \in BatchIds : req[k].pc \notin {"none", "consumed"}}

RECURSIVE Flatten(_)
Flatten(seqs) == IF Len(seqs) = 0 THEN <<>> ELSE Head(seqs) \o Flatten(Tail(seqs))

\* The least c with c * b >= n, for b > 0.
CeilOf(n, b) == CHOOSE c \in 0..n : c * b >= n /\ (c = 0 \/ (c - 1) * b < n)

\* C1: for non-empty texts and a positive batch size b, the k-th lemmatize
\* call's input is the contiguous slice texts[(k-1)*b : min(k*b, len)], never
\* more than ceil(len/b) calls are issued, and an operation that ran to its end
\* (process returned, the stream was consumed to its end) issued exactly
\* ceil(len/b) calls whose inputs, in order, concatenate to texts.
C1_BatchSlices ==
    LET n == Len(texts)
        b == config.batchSize
    IN (n > 0 /\ b > 0) =>
         /\ \A k \in 1..Len(lemCalls) :
               lemCalls[k] = SubSeq(texts, (k - 1) * b + 1, Min(k * b, n))
         /\ Len(lemCalls) <= CeilOf(n, b)
         /\ bpc = "returned" =>
               /\ Len(lemCalls) = CeilOf(n, b)
               /\ Flatten(lemCalls) = texts

C1_Witness ==
    /\ bpc = "returned"
    /\ mode = "process"
    /\ Len(texts) = 3
    /\ config.batchSize = 2
    /\ lemCalls = << <<"t1", "t2">>, <<"t3">> >>

\* C2: at most one lemmatize call of the operation is in flight (fetching,
\* reading the body or waiting out a backoff) at any time, and a call for
\* batch j exists only when every earlier batch's call has fully resolved.
C2_Sequential ==
    /\ Cardinality({k \in BatchIds : InFlight(req[k])}) <= 1
    /\ \A j \in BatchIds : req[j].pc # "none" =>
          \A k \in BatchIds : k < j => req[k].pc \in {"resolved", "rejected", "consumed"}

C2_Witness ==
    /\ req[0].pc = "consumed"
    /\ req[1].pc = "delay"
    /\ Len(req[1].calls) = 2

\* C3: while fewer than maxAttempts attempts have failed, all of them with
\* retryable failures, the invocation has not given up; and when the attempt
\* after j < maxAttempts such failures succeeds, exactly j+1 network calls
\* were made and the invocation resolves with that attempt's payload.
C3_RetryThenSuccess ==
    \A k \in Invocations :
       LET r == req[k]
       IN (r.onlyRetryable /\ r.failed < clientConfig.retries) =>
            /\ r.pc # "rejected"
            /\ r.pc = "resolved" =>
                  /\ Len(r.calls) = r.failed + 1
                  /\ r.response[1].status = 200
                  /\ r.result = r.response[1].body.payload
                  /\ Len(r.result) = 1

C3_Witness ==
    \E k \in Invocations :
       /\ clientConfig.retries = 3
       /\ req[k].pc = "resolved"
       /\ req[k].failed = 2
       /\ req[k].onlyRetryable
       /\ req[k].lastFailure[1].kind = "transport"
       /\ Len(req[k].calls) = 3

\* C4: once any attempt has received a response with status in [400,500),
\* the invocation makes no further network call and fails with a
\* SpacyNLPError carrying that status code and the decoded error envelope,
\* whatever the response body is.
C4_ClientErrorFailsImmediately ==
    \A k \in Invocations :
       LET r == req[k]
       IN r.got4xx =>
            /\ r.pc \in {"json", "rejected"}
            /\ r.pc = "rejected" =>
                  /\ IsSpacyNLPError(r.error[1])
                  /\ r.error[1].statusCode = <<r.response[1].status>>
                  /\ r.error[1].details = r.response[1].body.envelope
                  /\ Len(r.error[1].details) = 1

C6_BackoffDelays ==
    \A k \in Invocations :
       LET r == req[k]
       IN /\ \A w \in 1..Len(r.waits) : r.waits[w] = clientConfig.retryDelay * (2 ^ (w - 1))
          /\ r.pc = "delay" =>
                /\ Len(r.waits) = Len(r.calls)
                /\ Len(r.calls) < clientConfig.retries
          /\ r.pc # "delay" => Len(r.waits) = Len(r.calls) - 1

C6_Witness ==
    \E k \in Invocations :
       /\ req[k].waits = <<1000, 2000>>
       /\ req[k].pc = "rejected"
       /\ req[k].got4xx

\* C7: an attempt ended by the timeout timer is handled as a transport
\* failure: when fewer than maxAttempts attempts have failed the invocation
\* waits the backoff delay and retries, otherwise it ends with the
\* exhausted-retries error.
C7_TimeoutIsTransportFailure ==
    \A k \in Invocations :
       LET r == req[k]
       IN (r.lastFailure # <<>> /\ r.lastFailure[1].kind \in {"timeout", "transport"}) =>
            /\ ~TimerArmed(r) \/ r.pc = "fetch"
            /\ IF r.failed < clientConfig.retries
               THEN /\ r.pc \in {"delay", "fetch", "json", "resolved"}
                    /\ Len(r.waits) = r.failed
               ELSE /\ r.pc = "rejected"
                    /\ IsSpacyNLPError(r.error[1])
                    /\ r.error[1].statusCode = <<>>
                    /\ r.error[1].message[1] = "Request failed after"
                    /\ r.error[1].message[4] = r.lastFailure[1].error.message[1]

C7_Witness ==
    \E k \in Invocations :
       /\ req[k].lastFailure # <<>>
       /\ req[k].lastFailure[1].kind = "timeout"
       /\ req[k].pc = "rejected"
       /\ req[k].failed = 3

\* C8: when the lemmatize call of batch k is rejected, the operation rejects
\* with that same error, returns no aggregate, and no batch after k is ever
\* requested, also on later pulls of the stream.
C8_FailurePropagates ==
    /\ \A k \in BatchIds : req[k].pc = "rejected" =>
          /\ bpc = "awaiting"
          /\ i = k
    /\ (bpc = "thrown" /\ Len(texts) > 0) =>
          /\ req[i].pc = "consumed"
          /\ failure = req[i].error
          /\ Len(failure) = 1
          /\ result = <<>>
          /\ Len(lemCalls) = i + 1
          /\ Len(yielded) = (IF mode = "stream" THEN i ELSE 0)
          /\ \A j \in BatchIds : j > i => req[j].pc = "none"
          /\ \A j \in BatchIds : j < i =>
                (req[j].pc = "consumed" /\ req[j].error = <<>> /\ Len(req[j].result) = 1)

C8_Witness ==
    /\ mode = "stream"
    /\ bpc = "thrown"
    /\ i = 1
    /\ latePulls = 1
    /\ Len(yielded) = 1
    /\ IsSpacyNLPError(failure[1])

\* C9: process([]) and the first pull of processStream([]) fail with the
\* error 'Cannot process empty text array', no lemmatize call and no network
\* call has been issued, and the progress callback has not been invoked (a
\* generator closed before its first pull never runs and never fails).
C9_EmptyInputRejected ==
    Len(texts) = 0 =>
       /\ bpc \notin {"idle", "closed"} =>
             /\ bpc = "thrown"
             /\ Len(failure) = 1
             /\ failure[1].message = <<"Cannot process empty text array">>
       /\ result = <<>>
       /\ yielded = <<>>
       /\ lemCalls = <<>>
       /\ \A k \in BatchIds : req[k].pc = "none" /\ req[k].calls = <<>>
       /\ progress = <<>>

C9_Witness ==
    /\ Len(texts) = 0
    /\ bpc = "thrown"
    /\ config.onProgress
    /\ mode = "stream"
    /\ latePulls = 1

\* C10: with a progress callback configured, it has been invoked exactly once
\* for every batch whose call completed, the k-th time with <<min(k*b, len),
\* len>>; the processed counts increase strictly, and after an operation that
\* ran to its end there is one invocation per batch and the last processed
\* count is len.
C10_ProgressPerBatch ==
    LET n == Len(texts)
        b == config.batchSize
        completed == {k \in BatchIds : req[k].pc = "consumed" /\ req[k].error = <<>>}
    IN config.onProgress =>
         /\ Len(progress) = Cardinality(completed)
         /\ \A k \in 1..Len(progress) : progress[k] = <<Min(k * b, n), n>>
         /\ \A k \in 1..(Len(progress) - 1) : progress[k][1] < progress[k + 1][1]
         /\ (bpc = "returned" /\ Len(lemCalls) > 0) =>
               /\ Len(progress) = Len(lemCalls)
               /\ progress[Len(progress)][1] = n

C10_Witness ==
    /\ config.onProgress
    /\ bpc = "returned"
    /\ mode = "process"
    /\ progress = << <<2, 3>>, <<3, 3>> >>

\* C11: while the consumer of processStream holds k elements and has not
\* pulled again, and after it has closed the generator, exactly k lemmatize
\* calls have been issued and none is pending; closing is final, so the count
\* stays k.
C11_NoRequestWithoutPull ==
    (mode = "stream" /\ bpc \in {"suspended", "closed"}) =>
       /\ Len(lemCalls) = Len(yielded)
       /\ \A k \in BatchIds : req[k].pc \in {"none", "consumed"}
       /\ \A k \in BatchIds : req[k].pc = "consumed" <=> k < Len(yielded)

C11_Witness ==
    /\ mode = "stream"
    /\ bpc = "closed"
    /\ Len(yielded) = 1
    /\ TotalBatches = 3
    /\ latePulls = 1
    /\ Len(lemCalls) = 1

\* C12: creating the sequence issues no call; at the moment the k-th element
\* is delivered exactly k batches have been requested and (when configured)
\* the progress callback has been invoked exactly k times; while a batch is
\* awaited, it is the single batch requested beyond the elements delivered.
C12_LazyPullDriven ==
    mode = "stream" =>
       /\ bpc = "idle" =>
             /\ lemCalls = <<>>
             /\ progress = <<>>
             /\ \A k \in BatchIds : req[k].pc = "none"
       /\ bpc = "suspended" =>
             /\ Len(lemCalls) = i + 1
             /\ Len(yielded) = i + 1
             /\ config.onProgress => Len(progress) = i + 1
       /\ bpc = "awaiting" =>
             /\ Len(lemCalls) = Len(yielded) + 1
             /\ config.onProgress => Len(progress) = Len(yielded)
       /\ ~config.onProgress => progress = <<>>

C12_Witness ==
    /\ mode = "stream"
    /\ bpc = "suspended"
    /\ config.onProgress
    /\ Len(yielded) = 2
    /\ Len(progress) = 2
    /\ Len(lemCalls) = 2
    /\ TotalBatches = 3

\* The response the k-th lemmatize call (k = 1, 2, ...) resolved with.
BatchResponse(k) == req[k - 1].result[1]

RECURSIVE SumTo(_, _)
SumTo(f(_), n) == IF n = 0 THEN 0 ELSE f(n) + SumTo(f, n - 1)

BatchDocs(k) == Len(BatchResponse(k).tokens)
BatchTime(k) == BatchResponse(k).processing_time_ms

RECURSIVE CountTokens(_)
CountTokens(docs) == IF Len(docs) = 0 THEN 0 ELSE Len(Head(docs)) + CountTokens(Tail(docs))

BatchTokens(k) == CountTokens(BatchResponse(k).tokens)

RECURSIVE CountDecodedTokens(_)
CountDecodedTokens(documents) ==
    IF Len(documents) = 0 THEN 0
    ELSE Len(Head(documents).tokens) + CountDecodedTokens(Tail(documents))

\* C13: the raw tokens of the result of a successful process are the batch
\* responses' tokens concatenated in batch order, its document and token
\* counts are the sums over the batches, and its annotations are the first
\* batch's annotations.
C13_AggregateIsConcatenation ==
    (mode = "process" /\ bpc = "returned" /\ Len(lemCalls) > 0) =>
       LET n == Len(lemCalls)
           agg == result[1]
       IN /\ agg.raw.tokens = Flatten([k \in 1..n |-> BatchResponse(k).tokens])
          /\ agg.raw.annotations = BatchResponse(1).annotations
          /\ Len(agg.documents) = SumTo(BatchDocs, n)
          /\ CountDecodedTokens(agg.documents) = SumTo(BatchTokens, n)

C13_Witness ==
    /\ mode = "process"
    /\ bpc = "returned"
    /\ Len(lemCalls) = 2
    /\ Len(texts) = 3
    /\ BatchResponse(1).annotations # BatchResponse(2).annotations
    /\ Len(result[1].documents) = 3

\* C14: the processing_time_ms of the result of process is the sum of the
\* processing_time_ms of the batch responses received by that call.
C14_DurationIsSum ==
    (mode = "process" /\ bpc = "returned") =>
       result[1].raw.processing_time_ms = SumTo(BatchTime, Len(lemCalls))

C14_Witness ==
    /\ mode = "process"
    /\ bpc = "returned"
    /\ Len(lemCalls) = 3
    /\ result[1].raw.processing_time_ms = 60

\* ------------------------------------------- decode and export claims
\* The values the decoded token holds under a field name.
Held(token, name) == { token[j][2] : j \in {m \in 1..Len(token) : token[m][1] = name} }

IsTrueString(raw) == raw = <<"true">> \/ raw = <<"True">>

\* C15: decode yields one Document per entry of tokens and one Token per
\* token value sequence, in response order, and for every document d, token t
\* and index k the field named annotations[k] holds tokens[d][t][k], as the
\* same string or, for an is_ name, as its boolean coercion.
C15_DecodePreservesPosition ==
    decoded # <<>> =>
        LET docs == decoded[1].documents
        IN /\ Len(docs) = Len(rawResponse.tokens)
           /\ \A d \in 1..Len(docs) :
                /\ Len(docs[d].tokens) = Len(rawResponse.tokens[d])
                /\ \A t \in 1..Len(docs[d].tokens) :
                   \A k \in 1..Len(rawResponse.annotations) :
                     LET name == rawResponse.annotations[k]
                         raw == rawResponse.tokens[d][t][k]
                     IN Held(docs[d].tokens[t], name) =
                          { IF StartsWithIs(name)
                            THEN <<"boolean",
                                   << IF IsTrueString(raw) THEN "true" ELSE "false" >> >>
                            ELSE <<"string", raw>> }

C15_Witness ==
    /\ decoded # <<>>
    /\ rawResponse.annotations = <<"tag", "pos", "text">>
    /\ Len(rawResponse.tokens) = 2
    /\ Len(rawResponse.tokens[1]) = 2
    /\ rawResponse.tokens[1][1] # rawResponse.tokens[1][2]
    /\ Held(decoded[1].documents[1].tokens[2], "tag") = { <<"string", <<"_SP">> >> }

\* The raw value of the field in the token's row.
RawOf(annotations, row, name) ==
    row[CHOOSE k \in 1..Len(annotations) : annotations[k] = name]

\* C16: in a decoded Token every field whose name starts with is_ is a
\* boolean, true exactly when the raw value is "true" or "True", and every
\* other field is a string, equal to its raw value.
C16_BooleanCoercion ==
    decoded # <<>> =>
        \A d \in 1..Len(decoded[1].documents) :
        \A t \in 1..Len(decoded[1].documents[d].tokens) :
            LET token == decoded[1].documents[d].tokens[t]
                ann == rawResponse.annotations
                row == rawResponse.tokens[d][t]
            IN \A j \in 1..Len(token) :
                 LET name == token[j][1]
                     value == token[j][2]
                     listed == \E k \in 1..Len(ann) : ann[k] = name
                 IN IF StartsWithIs(name)
                    THEN /\ value[1] = "boolean"
                         /\ value[2] \in { <<"true">>, <<"false">> }
                         /\ (value[2] = <<"true">>) = IsTrueString(RawOf(ann, row, name))
                    ELSE /\ value[1] = "string"
                         /\ listed => value[2] = RawOf(ann, row, name)

C16_Witness ==
    /\ decoded # <<>>
    /\ Len(decoded[1].documents) = 1
    /\ Len(decoded[1].documents[1].tokens) = 2
    /\ Held(decoded[1].documents[1].tokens[1], "is_alpha") = { <<"boolean", <<"true">> >> }
    /\ Held(decoded[1].documents[1].tokens[2], "is_alpha") = { <<"boolean", <<"false">> >> }
    /\ rawResponse.tokens[1][1][4] = <<"True">>
    /\ rawResponse.tokens[1][2][4] = <<"TRUE">>

\* The strings with one space between consecutive ones, built from the left.
RECURSIVE SpaceJoined(_)
SpaceJoined(strings) ==
    IF Len(strings) = 0 THEN <<>>
    ELSE IF Len(strings) = 1 THEN strings[1]
    ELSE SpaceJoined(SubSeq(strings, 1, Len(strings) - 1))
         \o <<" ">> \o strings[Len(strings)]

TextOf(token) == (CHOOSE v \in Held(token, "text") : TRUE)[2]

RECURSIVE Split(_, _)
Split(s, sep) ==
    IF \A j \in 1..Len(s) : s[j] # sep THEN << s >>
    ELSE LET k == CHOOSE j \in 1..Len(s) :
                    /\ s[j] = sep
                    /\ \A m \in 1..(j - 1) : s[m] # sep
         IN << SubSeq(s, 1, k - 1) >> \o Split(SubSeq(s, k + 1, Len(s)), sep)

\* The lines of an output; the empty output has none.
LinesOf(out) == IF out = <<>> THEN <<>> ELSE Split(out, "\n")

IsTokenLine(line) == line # <<>>

DecodedTokens == Flatten([d \in 1..Len(decoded[1].documents) |->
                            decoded[1].documents[d].tokens])

\* The field's string, '' when the token has no such field.
StringOrEmpty(token, name) ==
    IF Held(token, name) = {} THEN <<>> ELSE (CHOOSE v \in Held(token, name) : TRUE)[2]

\* C19: toVertical emits, for every token of every document in order, one
\* line of exactly four tab-separated fields: text, lemma, part-of-speech and
\* fine tag, the last two empty when absent.
C19_FourFieldLines ==
    vertical # <<>> =>
        LET tokenLines == SelectSeq(LinesOf(vertical[1]), IsTokenLine)
        IN /\ Len(tokenLines) = Len(DecodedTokens)
           /\ \A p \in 1..Len(tokenLines) :
                Split(tokenLines[p], "\t") =
                    << StringOrEmpty(DecodedTokens[p], "text"),
                       StringOrEmpty(DecodedTokens[p], "lemma"),
                       StringOrEmpty(DecodedTokens[p], "pos"),
                       StringOrEmpty(DecodedTokens[p], "tag") >>

BlankLines(lines) == {p \in 1..Len(lines) : lines[p] = <<>>}

\* C20: toVertical puts exactly one blank line between consecutive documents
\* and none before the first or after the last: the output never starts or
\* ends with a blank line, never has two consecutive blank lines, and two
\* documents of one token each give exactly 3 lines.
C20_BlankLineSeparators ==
    vertical # <<>> =>
        LET lines == LinesOf(vertical[1])
            docs == decoded[1].documents
        IN /\ Len(lines) > 0 => (lines[1] # <<>> /\ lines[Len(lines)] # <<>>)
           /\ \A p \in 1..(Len(lines) - 1) : ~(lines[p] = <<>> /\ lines[p + 1] = <<>>)
           /\ Len(docs) > 0 => Cardinality(BlankLines(lines)) = Len(docs) - 1
           /\ (Len(docs) = 2 /\ Len(docs[1].tokens) = 1 /\ Len(docs[2].tokens) = 1)
                => Len(lines) = 3

\* ------------------------------------------------------ CSV reading
\* The records of a CSV text, each the sequence of its cells as written:
\* a comma ends a cell and a line break ends a record, except between
\* double quotes.
RECURSIVE CsvScan(_, _, _, _, _)
CsvScan(str, inQuotes, cell, record, records) ==
    IF Len(str) = 0 THEN Append(records, Append(record, cell))
    ELSE LET c == str[1]
             rest == Tail(str)
         IN IF c = "\"" THEN CsvScan(rest, ~inQuotes, Append(cell, c), record, records)
            ELSE IF c = "," /\ ~inQuotes THEN CsvScan(rest, inQuotes, <<>>, Append(record, cell), records)
            ELSE IF c = "\n" /\ ~inQuotes THEN CsvScan(rest, inQuotes, <<>>, <<>>, Append(records, Append(record, cell)))
            ELSE CsvScan(rest, inQuotes, Append(cell, c), record, records)

CsvRecords(str) == IF str = <<>> THEN <<>> ELSE CsvScan(str, FALSE, <<>>, <<>>, <<>>)

\* A written cell read back: the quotes around it removed and every pair of
\* double quotes inside taken for one.
RECURSIVE Undoubled(_)
Undoubled(str) ==
    IF Len(str) = 0 THEN <<>>
    ELSE IF Len(str) >= 2 /\ str[1] = "\"" /\ str[2] = "\""
    THEN <<"\"">> \o Undoubled(SubSeq(str, 3, Len(str)))
    ELSE << str[1] >> \o Undoubled(Tail(str))

IsQuoted(cell) == Len(cell) >= 2 /\ cell[1] = "\"" /\ cell[Len(cell)] = "\""

CsvCellValue(cell) ==
    IF IsQuoted(cell) THEN Undoubled(SubSeq(cell, 2, Len(cell) - 1)) ELSE cell

NeedsQuoting(str) == \E j \in 1..Len(str) : str[j] \in {",", "\"", "\n"}

ToCSVReturned == returned # <<>> /\ returned[1].op = "toCSV"

\* C21: with at least one token, the header row of toCSV is the response's
\* annotations sequence in its original order.
C21_HeaderIsAnnotations ==
    (ToCSVReturned /\ Len(DecodedTokens) > 0) =>
        CsvRecords(returned[1].str)[1] =
            [k \in 1..Len(rawResponse.annotations) |-> << rawResponse.annotations[k] >>]

\* C22: in toCSV a field value is written between double quotes, with every
\* double quote inside doubled, if and only if it holds a comma, a double
\* quote or a line break; every other value is written verbatim.
C22_QuotingRule ==
    (ToCSVReturned /\ Len(DecodedTokens) > 0) =>
        LET records == CsvRecords(returned[1].str)
            names == records[1]
        IN \A p \in 1..Len(DecodedTokens) : \A j \in 1..Len(names) :
             LET value == StringOrEmpty(DecodedTokens[p], names[j][1])
                 cell == records[p + 1][j]
             IN IF NeedsQuoting(value)
                THEN /\ IsQuoted(cell)
                     /\ Undoubled(SubSeq(cell, 2, Len(cell) - 1)) = value
                     /\ Len(cell) = Len(value) + 2
                                    + Cardinality({m \in 1..Len(value) : value[m] = "\""})
                ELSE cell = value

C22_Witness ==
    /\ ToCSVReturned
    /\ rawResponse.annotations = <<"text", "lemma">>
    /\ Len(DecodedTokens) = 2
    /\ CsvRecords(returned[1].str)[2][1] = <<"\"", "Hello", ",", " ", "world", "\"">>
    /\ CsvRecords(returned[1].str)[2][2] = <<"hello">>
    /\ CsvRecords(returned[1].str)[3][2] = <<"\"", "\"", "\"", "\"">>

\* C23: toCSV returns the empty string exactly when the result has no token;
\* otherwise it returns a header row and then one row per token, in the order
\* of allTokens, each holding the token's values in the header's field order.
C23_RowPerToken ==
    ToCSVReturned =>
        LET records == CsvRecords(returned[1].str)
        IN /\ (returned[1].str = <<>>) = (Len(DecodedTokens) = 0)
           /\ Len(DecodedTokens) > 0 =>
                /\ Len(records) = Len(DecodedTokens) + 1
                /\ \A p \in 1..Len(DecodedTokens) :
                     /\ Len(records[p + 1]) = Len(records[1])
                     /\ \A j \in 1..Len(records[1]) :
                          CsvCellValue(records[p + 1][j]) =
                              StringOrEmpty(DecodedTokens[p], records[1][j][1])

C23_Witness ==
    /\ ToCSVReturned
    /\ Len(decoded[1].documents) = 2
    /\ Len(DecodedTokens) = 3
    /\ Len(CsvRecords(returned[1].str)) = 4
    /\ rawResponse.annotations = <<"tag", "pos", "text">>

C23_EmptyWitness ==
    /\ ToCSVReturned
    /\ Len(decoded[1].documents) = 2
    /\ returned[1].str = <<>>

\* ------------------------------------------------ token array claims
Precedes(a, b) == a[1] < b[1] \/ (a[1] = b[1] /\ a[2] < b[2])

TokenAddresses ==
    UNION { { <<d, t>> : t \in 1..Len(decoded[1].documents[d].tokens) } :
            d \in 1..Len(decoded[1].documents) }

TokenCount(d) == Len(decoded[1].documents[d].tokens)

\* C24: allTokens returns every token of every document exactly once, in
\* document order and then in position order; its length is the sum of the
\* documents' token counts.
C24_AllTokensFlattened ==
    (returned # <<>> /\ returned[1].op = "allTokens") =>
        LET refs == returned[1].refs
        IN /\ Len(refs) = SumTo(TokenCount, Len(decoded[1].documents))
           /\ \A a \in TokenAddresses :
                Cardinality({p \in 1..Len(refs) : refs[p] = a}) = 1
           /\ \A p \in 1..Len(refs) : refs[p] \in TokenAddresses
           /\ \A p, q \in 1..Len(refs) : p < q => Precedes(refs[p], refs[q])

C24_Witness ==
    /\ returned # <<>>
    /\ returned[1].op = "allTokens"
    /\ returned[1].refs = << <<1, 1>>, <<1, 2>>, <<2, 1>> >>
    /\ TokenAt(decoded[1].documents, <<1, 2>>) # TokenAt(decoded[1].documents, <<2, 1>>)

HasPos(a, posTag) ==
    Held(TokenAt(decoded[1].documents, a), "pos") = { <<"string", << posTag >> >> }

\* C25: filterTokens(p) returns exactly the tokens of allTokens() that
\* satisfy p, in their order in allTokens(), and the empty sequence when none
\* satisfies p.
C25_FilterIsOrderedSubset ==
    (returned # <<>> /\ returned[1].op = "filterTokens") =>
        LET refs == returned[1].refs
            posTag == returned[1].arg
        IN /\ {refs[p] : p \in 1..Len(refs)} = {a \in TokenAddresses : HasPos(a, posTag)}
           /\ \A p, q \in 1..Len(refs) : p < q => Precedes(refs[p], refs[q])
           /\ (\A a \in TokenAddresses : ~HasPos(a, posTag)) => refs = <<>>

C25_Witness ==
    /\ returned # <<>>
    /\ returned[1].op = "filterTokens"
    /\ returned[1].arg = "INTJ"
    /\ returned[1].refs = << <<1, 2>>, <<2, 1>> >>
    /\ Len(decoded[1].documents[1].tokens) = 2

C25_NoMatchWitness ==
    /\ returned # <<>>
    /\ returned[1].op = "filterTokens"
    /\ returned[1].arg = "ADJ"
    /\ returned[1].refs = <<>>
    /\ Len(DecodedTokens) = 3

\* The array behind an address of a document's token array.
TokensOf(ref) == decoded[1].documents[ref[1]].tokens

FieldNames(token) == {token[j][1] : j \in 1..Len(token)}

C27_DocumentsImmutable ==
    [][ decoded # <<>> =>
          (decoded' # <<>> /\ decoded'[1].documents = decoded[1].documents) ]_vars

\* ------------------------------------------- direct lemmatize claims
\* The texts a call has to send: the given sequence, or the one-element
\* sequence of the given string.
TextsToSend(k) ==
    IF callArgs[k][1].texts[1] = "string"
    THEN << callArgs[k][1].texts[2] >>
    ELSE callArgs[k][1].texts[2]

BodyToSend(k) ==
    IF callArgs[k][1].fields = <<>>
    THEN << <<"model", callArgs[k][1].model>>, <<"texts", TextsToSend(k)>> >>
    ELSE << <<"model", callArgs[k][1].model>>, <<"texts", TextsToSend(k)>>,
            <<"fields", callArgs[k][1].fields[1]>> >>

SentAsGiven(k) ==
    \A j \in 1..Len(req[k].calls) :
        /\ req[k].calls[j].endpoint = "/lemmatize"
        /\ req[k].calls[j].method = "POST"
        /\ Len(req[k].calls[j].body) = Len(BodyToSend(k))
        /\ req[k].calls[j].body = BodyToSend(k)

C28_ArrayWitness ==
    /\ callArgs[0] # <<>>
    /\ callArgs[0][1].texts = ArrayArg(<<"t1", "t2">>)
    /\ callArgs[0][1].fields = <<>>
    /\ req[0].pc = "resolved"
    /\ Len(req[0].calls[1].body) = 2
    /\ Len(req[0].result[1].tokens) = 2

\* C29: the value lemmatize resolves to is a LemmatizationResult: it has the
\* documents decoded from the response (and the raw response), so that
\* result.documents can be iterated.
C29_ResolvesToResult ==
    (callArgs[0] # <<>> /\ req[0].pc = "resolved") =>
        /\ "documents" \in DOMAIN req[0].result[1]
        /\ req[0].result[1].documents =
             parseResponse(req[0].response[1].body.payload[1])

ConcurrentCalls == {0, 1}

\* What an invocation owns: its attempt counter, its timer, its calls and its
\* outcome, the last two within the given number of calls.
OwnState(k, callLimit) ==
    LET r == req[k]
    IN callArgs[k] # <<>> =>
        /\ r.attempt = Len(r.calls)
        /\ \A j \in 1..Len(r.calls) : r.calls[j].attempt = j
        /\ TimerArmed(r) = (r.pc = "fetch")
        /\ Len(r.calls) <= callLimit
        /\ SentAsGiven(k)
        /\ r.pc = "resolved" =>
             /\ r.result = r.response[1].body.payload
             /\ r.result[1] \in LemmatizeResponses(TextsToSend(k))
        /\ r.pc = "rejected" =>
             /\ r.lastFailure # <<>>
             /\ \/ r.error[1] = r.lastFailure[1].error
                \/ r.error[1] = ExhaustedError(r.attempt, r.lastFailure[1].error)

\* A step of one invocation leaves every other invocation as it was.
OneInvocationPerStep ==
    \A j, k \in BatchIds : (j # k /\ req'[j] # req[j]) => req'[k] = req[k]

\* C30 as stated: interleaved invocations keep their own attempt counter and
\* timeout, make at most maxAttempts calls each, and have outcomes that depend
\* only on the responses to their own calls.
C30_AtMostMaxAttempts ==
    \A k \in ConcurrentCalls : OwnState(k, clientConfig.retries)

\* C30: interleaved invocations keep their own attempt counter and timeout,
\* make at most max(1, maxAttempts) calls each, have outcomes that depend only
\* on the responses to their own calls, and no step of one changes the other.
C30_InvocationsIndependent ==
    /\ [](\A k \in ConcurrentCalls : OwnState(k, Max(1, clientConfig.retries)))
    /\ [][OneInvocationPerStep]_vars

C30_Witness ==
    /\ req[0].pc = "fetch"
    /\ req[0].attempt = 2
    /\ req[1].pc = "json"
    /\ req[1].attempt = 1
    /\ TimerArmed(req[0])
    /\ ~TimerArmed(req[1])

\* C32 as stated: the timeout guards the whole of each attempt's network
\* call: while an attempt is waiting on the network, for the response or for
\* its body to be read and parsed, the timer of that attempt is still armed.
C32_TimerCoversWholeAttempt ==
    \A k \in Invocations :
       req[k].pc \in {"fetch", "json"} => TimerArmed(req[k])

\* C40: an invocation has at most one timeout timer armed at any time, and it
\* is the timer of the current attempt; once an attempt has ended (its
\* response arrived, it failed, the backoff started, or the invocation
\* settled) its timer has been cancelled, so no abort ever fires against an
\* attempt that has ended and no timer outlives the invocation.
C40_OneTimerCancelledAtEnd ==
    \A k \in Invocations :
       LET r == req[k]
       IN /\ Cardinality(r.timers) <= 1
          /\ r.timers \subseteq {r.attempt}
          /\ r.pc # "fetch" => r.timers = {}
          /\ ~r.abortedFinished

C40_Witness ==
    \E k \in Invocations :
       /\ req[k].pc = "fetch"
       /\ req[k].attempt = 2
       /\ req[k].timers = {2}
       /\ req[k].failed = 1

\* C36: all network calls of one invocation carry the same endpoint, method
\* and body as its first call, and the attempt number of the j-th call is j:
\* it starts at 1 and grows by exactly 1 with each retry.
C36_AttemptsRepeatTheRequest ==
    \A k \in Invocations :
       LET r == req[k]
       IN /\ InFlight(r) \/ Settled(r) => r.attempt = Len(r.calls)
          /\ \A j \in 1..Len(r.calls) :
                /\ r.calls[j].attempt = j
                /\ r.calls[j].endpoint = r.calls[1].endpoint
                /\ r.calls[j].method = r.calls[1].method
                /\ r.calls[j].body = r.calls[1].body

C36_Witness ==
    \E k \in Invocations :
       /\ Len(req[k].calls) = 3
       /\ req[k].calls[3].attempt = 3
       /\ Len(req[k].calls[3].body) = 3

\* C37 as stated: the failure an invocation surfaces is a SpacyNLPError; when
\* it was caused by a non-2xx response it carries the status code of that
\* response; when it is an exhausted transport failure it carries no status
\* code and a message naming the number of attempts and the message of the
\* last underlying error.
C37_FailureCarriesItsCause ==
    \A k \in Invocations :
       LET r == req[k]
       IN r.pc = "rejected" =>
            /\ IsSpacyNLPError(r.error[1])
            /\ r.lastFailure[1].kind = "http" =>
                 r.error[1].statusCode = <<r.lastFailure[1].status>>
            /\ r.lastFailure[1].kind \in {"transport", "timeout"} =>
                 /\ r.error[1].statusCode = <<>>
                 /\ r.error[1].message =
                      <<"Request failed after", Len(r.calls), "attempts:",
                        r.lastFailure[1].error.message[1]>>

\* C39 as stated: for non-empty texts and any configured integer batch size, a
\* process call that has returned successfully has issued at least one
\* lemmatize call, and its calls carry every input text exactly once, in
\* order.
C39_SuccessCoversEveryText ==
    (mode = "process" /\ bpc = "returned" /\ Len(texts) > 0) =>
        /\ Len(lemCalls) >= 1
        /\ Flatten(lemCalls) = texts

\* Progress has been reported for batches 1..count and for no other.
ProgressThrough(count) ==
    progress = [j \in 1..count |-> <<Min(j * config.batchSize, Len(texts)), Len(texts)>>]

\* C38: when the call of batch k has failed and the operation (process or the
\* stream) has thrown, a configured progress callback has been invoked exactly
\* k-1 times, for batches 1..k-1 with their cumulative counts and not for the
\* failed batch; from then on it is never invoked again.
C38_NoProgressForFailedBatch ==
    /\ []((bpc = "thrown" /\ Len(lemCalls) > 0) =>
            IF config.onProgress THEN ProgressThrough(Len(lemCalls) - 1)
            ELSE progress = <<>>)
    /\ [][bpc = "thrown" => progress' = progress]_vars

C38_Witness ==
    /\ mode = "stream"
    /\ bpc = "thrown"
    /\ config.onProgress
    /\ Len(lemCalls) = 3
    /\ progress = << <<1, 3>>, <<2, 3>> >>
    /\ latePulls = 1

C38_ProcessWitness ==
    /\ mode = "process"
    /\ bpc = "thrown"
    /\ config.onProgress
    /\ Len(lemCalls) = 2
    /\ progress = << <<2, 3>> >>

\* The token holds, under the j-th name of annotations, the j-th value of the
\* row: as a boolean for an is_ name, as the same string otherwise.
PositionalAgainst(token, annotations, row) ==
    \A j \in 1..Len(annotations) :
       Held(token, annotations[j]) =
          { IF StartsWithIs(annotations[j]) THEN Bool(IsTrueString(row[j]))
            ELSE Str(row[j]) }

DocsDecodedAgainst(docs, annotations, rows) ==
    /\ Len(docs) = Len(rows)
    /\ \A d \in 1..Len(docs) :
          /\ Len(docs[d].tokens) = Len(rows[d])
          /\ \A t \in 1..Len(rows[d]) :
                PositionalAgainst(docs[d].tokens[t], annotations, rows[d][t])

\* C33: process does not compare the field lists of later batches with the
\* first: whatever annotations batch k > 1 returned, a process call whose
\* batches all resolved succeeds, reports the first batch's annotations, and
\* holds every batch's token values decoded positionally against the first
\* batch's annotations; every element yielded by processStream is decoded
\* against the annotations of its own batch.
C33_LaterAnnotationsIgnored ==
    /\ (mode = "process" /\ bpc = "returned" /\ Len(lemCalls) > 0) =>
         /\ result[1].raw.annotations = BatchResponse(1).annotations
         /\ DocsDecodedAgainst(result[1].documents, BatchResponse(1).annotations,
                               Flatten([k \in 1..Len(lemCalls) |->
                                          BatchResponse(k).tokens]))
    /\ mode = "stream" =>
         \A k \in 1..Len(yielded) :
            /\ yielded[k].raw.annotations = BatchResponse(k).annotations
            /\ DocsDecodedAgainst(yielded[k].documents, BatchResponse(k).annotations,
                                  BatchResponse(k).tokens)

C33_Witness ==
    /\ mode = "process"
    /\ bpc = "returned"
    /\ Len(lemCalls) = 2
    /\ BatchResponse(1).annotations = <<"text", "lemma", "pos">>
    /\ BatchResponse(2).annotations = <<"lemma", "text", "is_stop">>
    /\ LET docs == result[1].documents
       IN GetField(docs[Len(docs)].tokens[1], "text") = Str(<<"lem">>)

C33_StreamWitness ==
    /\ mode = "stream"
    /\ Len(yielded) = 2
    /\ BatchResponse(1).annotations = <<"text", "lemma", "pos">>
    /\ BatchResponse(2).annotations = <<"lemma", "text", "is_stop">>
    /\ GetField(yielded[2].documents[1].tokens[1], "lemma") = Str(<<"lem">>)

\* The responses of the batches of an operation that ran to its end.
BatchResponses == [k \in 1..Len(lemCalls) |-> BatchResponse(k)]

SameAnnotations ==
    \A k \in 1..Len(lemCalls) :
       BatchResponse(k).annotations = BatchResponse(1).annotations

\* What a fully consumed stream yields for a sequence of batch responses.
StreamedFor(responses) ==
    [k \in 1..Len(responses) |-> LemmatizationResultImpl(responses[k])]

\* C34: for the same texts, configuration and batch responses, process and a
\* fully consumed processStream issue the same lemmatize calls and the same
\* progress callbacks, a callback after each call and before the next, and
\* when all responses carry the same annotations the documents of the
\* aggregate are the concatenation of the documents of the streamed elements:
\* the stream yields the decoded responses one by one, the aggregate holds
\* their documents in order.
C34_AggregateEqualsStream ==
    LET n == Len(texts)
        b == config.batchSize
    IN /\ config.onProgress /\ bpc # "thrown" =>
            Len(lemCalls) - Len(progress) \in {0, 1}
       /\ (bpc = "returned" /\ Len(lemCalls) > 0) =>
            /\ lemCalls = [k \in 1..CeilOf(n, b) |->
                             SubSeq(texts, (k - 1) * b + 1, Min(k * b, n))]
            /\ config.onProgress => ProgressThrough(Len(lemCalls))
            /\ mode = "stream" => yielded = StreamedFor(BatchResponses)
            /\ (mode = "process" /\ SameAnnotations) =>
                 result[1].documents =
                    Flatten([k \in 1..Len(lemCalls) |->
                               StreamedFor(BatchResponses)[k].documents])

C34_Witness ==
    /\ mode = "process"
    /\ bpc = "returned"
    /\ config.onProgress
    /\ Len(lemCalls) = 2
    /\ Len(texts) = 3
    /\ SameAnnotations
    /\ Len(result[1].documents) = 3

C34_StreamWitness ==
    /\ mode = "stream"
    /\ bpc = "returned"
    /\ config.onProgress
    /\ Len(lemCalls) = 2
    /\ Len(texts) = 3
    /\ SameAnnotations
    /\ Len(yielded) = 2

\* --------------------------------------------------------- scheduling
\* Every network call eventually settles: a pending fetch resolves, rejects
\* or is aborted by its timer, and a body being read parses or fails.
NetworkSettles ==
    /\ WF_vars(\E k \in BatchIds : FetchReject(k) \/ TimeoutAbort(k) \/ FetchResolve(k))
    /\ WF_vars(\E k \in BatchIds : JsonSettle(k))

\* process is suspended at an await whose promise has settled: the guard of
\* ProcessResume, a step that always changes the state.
ResumeDue == mode = "process" /\ bpc = "awaiting" /\ Settled(req[i])

\* The runtime fires a due backoff timer, and resumes an async function whose
\* awaited promise has settled: weak fairness of ProcessResume, with its
\* enabling condition written out as ResumeDue.
RuntimeSchedules ==
    /\ WF_vars(\E k \in BatchIds : DelayElapsed(k))
    /\ []<>(~ResumeDue) \/ []<><<ProcessResume>>_vars

\* A process call, without a progress callback, on a client whose network
\* calls settle.
ProcessInit ==
    /\ Init
    /\ mode = "process"
    /\ ~config.onProgress
    /\ clientConfig.retryDelay = DefaultRetryDelay

ProcessNext ==
    \/ CallProcess
    \/ ProcessResume
    \/ \E k \in BatchIds : FetchReject(k)
    \/ \E k \in BatchIds : TimeoutAbort(k)
    \/ \E k \in BatchIds : FetchResolve(k)
    \/ \E k \in BatchIds : JsonSettle(k)
    \/ \E k \in BatchIds : DelayElapsed(k)

FairSpec == ProcessInit /\ [][ProcessNext]_vars /\ NetworkSettles /\ RuntimeSchedules

\* C35: provided every network call eventually settles, every invocation of
\* request eventually settles, having made at least 1 and at most
\* max(1, maxAttempts) network calls, for every maxAttempts from 0 up; hence a
\* process call eventually returns or throws, and for n texts and a positive
\* batch size b it has made at most ceil(n/b) invocations of at most
\* max(1, maxAttempts) network calls each.
C35_EveryInvocationSettles ==
    /\ \A k \in BatchIds : []<>(~InFlight(req[k]))
    /\ [](\A k \in Invocations :
             /\ Len(req[k].calls) >= 1
             /\ Len(req[k].calls) <= Max(1, clientConfig.retries))
    /\ []<>(bpc # "awaiting")
    /\ []((mode = "process" /\ config.batchSize > 0) =>
             Len(lemCalls) <= CeilOf(Len(texts), config.batchSize))

C35_Witness ==
    /\ mode = "process"
    /\ bpc = "returned"
    /\ clientConfig.retries = 0
    /\ Len(texts) = 3
    /\ config.batchSize = 2
    /\ Len(lemCalls) = 2

\* ------------------------------------ two process calls on one instance
\* The arguments of the two calls: different texts, so that a text, a slice
\* or a token that strays into the other call shows.
ProcessTexts(p) == IF p = 0 THEN <<"t1", "t2", "t3">> ELSE <<"t4", "t5">>

\* Mutant: the accumulators are fields of the instance, shared by its calls.
LocalsShared(p) == procs[0]

\* Lines 40-42: allAnnotations, allTokens and totalProcessingTime are locals
\* of the call, as are texts, i and the loop bounds.
Locals(p) == procs[p]

\* The request invocation of the idx-th lemmatize call of call p.
InvocationOf(p, idx) ==
    IF p = 0 THEN idx
    ELSE TotalBatchesOf(Len(ProcessTexts(0)), config.batchSize) + idx

interleavedConst ==
    <<texts, mode, config, clientConfig, batchVars, resultVars, callArgs>>

\* The loop head of call p at index idx, with locals c: lines 44-48 up to the
\* await, or lines 66-73.
ProcessLoopFrom(p, c, idx, reqBase) ==
    IF idx < TotalBatchesOf(Len(c.texts), config.batchSize)
    THEN LET batch == BatchAt(c.texts, idx, config.batchSize)
         IN /\ procs' = [procs EXCEPT ![p] =
                           [c EXCEPT !.pc = "awaiting", !.i = idx,
                                     !.lemCalls = Append(@, batch)]]
            /\ req' = [reqBase EXCEPT ![InvocationOf(p, idx)] =
                         lemmatize(ArrayArg(batch), config.model, config.fields)]
    ELSE /\ procs' = [procs EXCEPT ![p] =
                        [c EXCEPT !.pc = "returned", !.i = idx,
                                  !.result = <<CombinedResult(c.allAnnotations,
                                                              c.allTokens,
                                                              c.totalProcessingTime)>>]]
         /\ req' = reqBase

\* Call p of process is made: lines 34-48 up to the first await.
CallProcessOf(p) ==
    /\ procs[p].pc = "idle"
    /\ LET c == [procs[p] EXCEPT !.texts = ProcessTexts(p)]
       IN IF IsEmptyInput(c.texts)
          THEN /\ procs' = [procs EXCEPT ![p] =
                              [c EXCEPT !.pc = "thrown",
                                        !.failure = <<EmptyInputError>>]]
               /\ req' = req
          ELSE ProcessLoopFrom(p, c, 0, req)
    /\ UNCHANGED interleavedConst

\* The lemmatize call awaited by call p has settled: lines 48-63, then the
\* next iteration up to its await, or lines 66-73.
ProcessResumeOf(p) ==
    LET c == Locals(p)
        k == InvocationOf(p, c.i)
    IN /\ procs[p].pc = "awaiting"
       /\ Settled(req[k])
       /\ IF req[k].pc = "rejected"
          THEN /\ procs' = [procs EXCEPT ![p] =
                              [c EXCEPT !.pc = "thrown",
                                        !.failure = <<Rethrown(req[k].error[1])>>]]
               /\ req' = [req EXCEPT ![k] = Consumed(@)]
          ELSE LET response == req[k].result[1]
                   end == BatchEnd(c.texts, c.i, config.batchSize)
                   after ==
                     [c EXCEPT
                        !.allAnnotations = AccumulateAnnotations(@, c.i, response),
                        !.allTokens = AccumulateTokens(@, response),
                        !.totalProcessingTime = AccumulateTime(@, response),
                        !.progress = IF config.onProgress
                                     THEN Append(@, ProgressArgs(end, Len(c.texts)))
                                     ELSE @]
               IN ProcessLoopFrom(p, after, c.i + 1, [req EXCEPT ![k] = Consumed(@)])
       /\ UNCHANGED interleavedConst

InterleavedInit ==
    /\ texts = <<>>
    /\ mode = "process"
    /\ config = [model |-> "en_core_web_sm", batchSize |-> 2, fields |-> <<>>,
                 onProgress |-> TRUE]
    /\ clientConfig = [retries |-> 2, retryDelay |-> DefaultRetryDelay]
    /\ bpc = "idle"
    /\ i = 0
    /\ allAnnotations = <<>>
    /\ allTokens = <<>>
    /\ totalProcessingTime = 0
    /\ progress = <<>>
    /\ lemCalls = <<>>
    /\ req = [k \in BatchIds |-> NoInvocation]
    /\ result = <<>>
    /\ failure = <<>>
    /\ yielded = <<>>
    /\ latePulls = 0
    /\ rawResponse = NoResponse
    /\ decoded = <<>>
    /\ vertical = <<>>
    /\ returned = <<>>
    /\ callArgs = [k \in BatchIds |-> <<>>]
    /\ procs = NoProcessCalls

InterleavedNext ==
    \/ \E p \in ProcessCallIds : CallProcessOf(p)
    \/ \E p \in ProcessCallIds : ProcessResumeOf(p)
    \/ \E k \in BatchIds : FetchReject(k)
    \/ \E k \in BatchIds : TimeoutAbort(k)
    \/ \E k \in BatchIds : FetchResolve(k)
    \/ \E k \in BatchIds : JsonSettle(k)
    \/ \E k \in BatchIds : DelayElapsed(k)

InterleavedSpec == InterleavedInit /\ [][InterleavedNext]_vars

\* What call p holds after its batches, given the responses to its own calls.
OwnResponse(p, k) == req[InvocationOf(p, k - 1)].result[1]

OwnBatches(p) ==
    {k \in 1..Len(procs[p].lemCalls) :
        /\ req[InvocationOf(p, k - 1)].pc = "consumed"
        /\ req[InvocationOf(p, k - 1)].error = <<>>}

\* C31: two process calls interleaved on one BatchProcessor do not interfere:
\* each call's lemmatize calls are the slices of its own texts, its progress
\* invocations are the cumulative counts over its own texts, its locals hold
\* the documents and the summed durations of its own completed batches and
\* the annotations of its own first batch, and a call that returned holds
\* exactly that in its result.
C31_CallsDoNotInterfere ==
    \A p \in ProcessCallIds :
       LET c == procs[p]
           n == Len(ProcessTexts(p))
           b == config.batchSize
           done == Cardinality(OwnBatches(p))
           ownTime(k) == OwnResponse(p, k).processing_time_ms
       IN c.pc # "idle" =>
            /\ c.texts = ProcessTexts(p)
            /\ \A k \in 1..Len(c.lemCalls) :
                  c.lemCalls[k] = SubSeq(c.texts, (k - 1) * b + 1, Min(k * b, n))
            /\ OwnBatches(p) = 1..done
            /\ c.progress = [k \in 1..done |-> <<Min(k * b, n), n>>]
            /\ c.allTokens = Flatten([k \in 1..done |-> OwnResponse(p, k).tokens])
            /\ c.totalProcessingTime = SumTo(ownTime, done)
            /\ done > 0 => c.allAnnotations = OwnResponse(p, 1).annotations
            /\ c.pc = "returned" =>
                 /\ done = CeilOf(n, b)
                 /\ c.result[1].raw.tokens = c.allTokens
                 /\ c.result[1].raw.annotations = c.allAnnotations
                 /\ c.result[1].raw.processing_time_ms = c.totalProcessingTime
                 /\ Len(c.result[1].documents) = n

C31_Witness ==
    /\ procs[0].pc = "awaiting"
    /\ procs[0].i = 1
    /\ procs[0].progress = << <<2, 3>> >>
    /\ req[InvocationOf(0, 1)].pc = "fetch"
    /\ procs[1].pc = "awaiting"
    /\ req[InvocationOf(1, 0)].pc = "json"
    /\ req[InvocationOf(1, 0)].attempt = 2
    /\ OwnResponse(0, 1).annotations = <<"lemma", "text", "is_stop">>

C31_ReturnedWitness ==
    /\ procs[0].pc = "returned"
    /\ procs[1].pc = "returned"
    /\ OwnResponse(0, 1).annotations # OwnResponse(1, 1).annotations
    /\ OwnResponse(0, 1).annotations # OwnResponse(0, 2).annotations
    /\ procs[0].progress = << <<2, 3>>, <<3, 3>> >>
    /\ procs[1].progress = << <<2, 2>> >>

====
